---- MODULE Spec2Model ----
(***************************************************************************)
(* Model of the TrustForge scan pipeline: ScanService (uploadAndScan,      *)
(* getScanStatus, retryScan), the Bull "scan" queue, and ScanProcessor     *)
(* (processScan, the four provider poll loops, calculateTFScore).          *)
(*                                                                         *)
(* Spec     : the job pipeline (records, queue, worker slots, API calls).  *)
(* SpecPoll : one provider poll loop driven by scripted responses.         *)
(***************************************************************************)
EXTENDS Integers, Sequences, FiniteSets, TLC

(***************************************************************************)
(* Bounds                                                                  *)
(***************************************************************************)
MaxScans == 1
MaxQueue == 2
NumRetryReqs == 2
NumWorkers == 1
MaxUnreliable == 1
MaxFindings == 3

(***************************************************************************)
(* Values                                                                  *)
(***************************************************************************)
\* A nullable column or variable is {} (null) or {v}.
Null == {}
Some(v) == {v}
Val(s) == CHOOSE v \in s : TRUE

ScanIds == 1..MaxScans
Users == {"u1", "u2"}
\* the users who submit files (every user may query and retry)
Uploaders == {"u1"}
Workers == 1..NumWorkers
RetryReqs == 1..NumRetryReqs

\* file names offered to uploadAndScan, as [base, ext] (extname of originalname)
FileNames == {[base |-> "app", ext |-> ".APK"], [base |-> "notes", ext |-> ".txt"]}

toLowerCase(s) ==
  CASE s = ".IPA" -> ".ipa"
    [] s = ".APK" -> ".apk"
    [] OTHER -> s

(***************************************************************************)
(* Provider results as processScan sees them                               *)
(***************************************************************************)
\* runMobSFScan: the report JSON; appsec (when present) carries the lists of
\* high, medium and low findings, kept here by their lengths.
MobsfPayloads == {[appsec |-> TRUE, high |-> 2, medium |-> 1, low |-> 0]}
\* runVirusTotalScan never throws: results map, size skip, or failure object.
\* malicious is the number of values whose category is "malicious".
VtOk == [error |-> FALSE, skipped |-> FALSE, malicious |-> 1]
VtSkipped == [error |-> FALSE, skipped |-> TRUE, malicious |-> 0]
VtFailed == [error |-> TRUE, skipped |-> TRUE, malicious |-> 0]
\* runMetaDefenderScan: scan_results (scan_details kept by the number of
\* entries with threat_found), or throws
MdOk == [error |-> FALSE, scan_details |-> TRUE, threats |-> 0]
\* runHybridAnalysisScan: report summary, or throws
HaOk == [error |-> FALSE, verdict |-> "clean", threats |-> 0]

\* processScan's catch around an optional provider: { error: e.message }
VtCaught == [error |-> TRUE, skipped |-> FALSE, malicious |-> 0]
MdCaught == [error |-> TRUE, scan_details |-> FALSE, threats |-> 0]
HaCaught == [error |-> TRUE, verdict |-> "none", threats |-> 0]

OptionalProviders == {"virustotal", "metadefender", "hybridAnalysis"}

Max(a, b) == IF a > b THEN a ELSE b
Min(a, b) == IF a < b THEN a ELSE b

(***************************************************************************)
(* ScanProcessor.calculateTFScore and generateRecommendations.  A bundle   *)
(* maps each provider name to Null (no entry) or Some(result).             *)
(***************************************************************************)
\* results.mobsf?.appsec
HasAppsec(m) == m # Null /\ Val(m).appsec

\* results.x && !results.x.error
Scored(o) == o # Null /\ ~Val(o).error

verdictDeduction_flat(verdict) ==
  IF verdict \in {"malicious", "suspicious"} THEN 20 ELSE 0

\* if (verdict === "malicious") 20 else if (verdict === "suspicious") 10
verdictDeduction(verdict) ==
  CASE verdict = "malicious" -> 20
    [] verdict = "suspicious" -> 10
    [] OTHER -> 0

clamp_noFloor(score) == Min(100, score)

\* Math.max(0, Math.min(100, score))
clamp(score) == Max(0, Min(100, score))

calculateTFScore(results) ==
  LET s0 == 100
      s1 == IF HasAppsec(results.mobsf)
              THEN s0 - Val(results.mobsf).high * 10
                      - Val(results.mobsf).medium * 5
                      - Val(results.mobsf).low * 2
              ELSE s0
      s2 == IF Scored(results.virustotal)
              THEN s1 - Val(results.virustotal).malicious * 5 ELSE s1
      s3 == IF Scored(results.metadefender)
              THEN s2 - (IF Val(results.metadefender).scan_details
                           THEN Val(results.metadefender).threats ELSE 0) * 5
              ELSE s2
      s4 == IF Scored(results.hybridAnalysis)
              THEN s3 - verdictDeduction(Val(results.hybridAnalysis).verdict)
                      - Val(results.hybridAnalysis).threats * 3
              ELSE s3
  IN clamp(s4)

RecHigh == "Fix high-severity vulnerabilities immediately."
RecMedium == "Review and address medium-severity vulnerabilities."
RecLow == "Follow best practices to address low-severity issues."
RecVirusTotal == "Investigate files flagged as malicious by VirusTotal."
RecMetaDefender == "Review threats identified by MetaDefender."
RecHybridAnalysis ==
  "Take immediate action on malicious findings from Hybrid Analysis."

\* recommendations.push(text) when cond holds
push(cond, text) == IF cond THEN <<text>> ELSE << >>

vtRecommended_present(o) == o # Null

\* if (scanResults.virustotal) { maliciousCount > 0 }
vtRecommended(o) == o # Null /\ Val(o).malicious > 0

generateRecommendations(scanResults) ==
  LET m == scanResults.mobsf
      md == scanResults.metadefender
      ha == scanResults.hybridAnalysis
  IN push(HasAppsec(m) /\ Val(m).high > 0, RecHigh)
     \o push(HasAppsec(m) /\ Val(m).medium > 0, RecMedium)
     \o push(HasAppsec(m) /\ Val(m).low > 0, RecLow)
     \o push(vtRecommended(scanResults.virustotal), RecVirusTotal)
     \o push(md # Null /\ Val(md).scan_details /\ Val(md).threats > 0,
             RecMetaDefender)
     \o push(ha # Null /\ Val(ha).verdict = "malicious", RecHybridAnalysis)

(***************************************************************************)
(* State                                                                   *)
(***************************************************************************)
VARIABLES
  scans,      \* the "scans" table: ScanIds -> row (NoRow until inserted)
  queue,      \* the Bull "scan" queue: sequence of waiting descriptors
  uploads,    \* objects in bucket app-uploads
  reports,    \* objects in bucket app-pdf-reports
  temp,       \* scan ids whose directory temp/<scanId> exists
  worker,     \* per worker slot: position in processScan and its locals
  retry,      \* per in-flight retryScan call: position and locals
  unreliable, \* the optional providers whose runs may fail in this behaviour
  apiResult,  \* the response a ScanService call produced in the step just taken
  \* --- poll loop (SpecPoll) ---
  loop,             \* which poll loop is running ("" when none)
  attempts,         \* the loop's local attempts
  lastLogTimestamp, \* pollMobSFScanLogs' local lastLogTimestamp
  outcome,          \* "running", "returned" (payload) or "timeout" (thrown)
  polls,            \* poll requests issued so far
  waits,            \* poll-interval sleeps taken so far
  lastResp,         \* class of the response to the latest poll
  prefixPending,    \* every response before the latest one was "pending"
  sawError,         \* some poll so far met a transient error
  \* --- scoring (SpecScore) ---
  results,          \* the bundle handed to calculateTFScore
  score,            \* Null until scored, then Some(calculateTFScore(results))
  recommendations,  \* Null until scored, then Some(generateRecommendations(results))
  \* --- one provider client call (SpecClient) ---
  call,             \* the client called, the file it is given, the provider's answers
  ran,              \* Null until the client has run, then what it handed back
  slot              \* the provider's variable in processScan (let ...Result)

pipeVars == <<scans, queue, uploads, reports, temp, worker, retry, apiResult,
              unreliable>>
pollVars == <<loop, attempts, lastLogTimestamp, outcome, polls, waits,
              lastResp, prefixPending, sawError>>
scoreVars == <<results, score, recommendations>>
clientVars == <<call, ran, slot>>
vars == <<pipeVars, pollVars, scoreVars, clientVars>>

NoRow == [user_id |-> Null, file_url |-> Null, scan_status |-> "",
          report_data |-> Null, tf_score |-> Null, pdf_report_url |-> Null]
Exists(id) == scans[id].user_id # Null

IdleWorker == [pc |-> "idle", job |-> Null, mobsf |-> Null, vt |-> Null,
               md |-> Null, ha |-> Null, tfScore |-> Null, pdfPath |-> Null,
               persisted |-> FALSE, cause |-> ""]
IdleRetry == [pc |-> "idle", scanId |-> 0, userId |-> "", scan |-> NoRow]
NoResult == [op |-> "", scanId |-> 0, result |-> ""]

\* the poll-loop variables while no loop is being driven
PollIdle ==
  /\ loop = "" /\ attempts = 0 /\ lastLogTimestamp = "" /\ outcome = ""
  /\ polls = 0 /\ waits = 0 /\ lastResp = ""
  /\ prefixPending = TRUE /\ sawError = FALSE

\* the client variables while no single client call is being followed
NoCall == [client |-> "", oversize |-> FALSE, mime |-> "", submit |-> "",
           poll |-> "", lookup |-> ""]
Unassigned == [assigned |-> FALSE, value |-> Null]
ClientIdle == call = NoCall /\ ran = Null /\ slot = Unassigned

\* the scoring variables while no bundle is being scored
ScoreIdle ==
  /\ results = [mobsf |-> Null, virustotal |-> Null, metadefender |-> Null,
                hybridAnalysis |-> Null]
  /\ score = Null
  /\ recommendations = Null

PipeInit ==
  /\ scans = [id \in ScanIds |-> NoRow]
  /\ queue = << >>
  /\ uploads = {}
  /\ reports = {}
  /\ temp = {}
  /\ worker = [k \in Workers |-> IdleWorker]
  /\ retry = [r \in RetryReqs |-> IdleRetry]
  /\ apiResult = NoResult
  /\ unreliable \in {S \in SUBSET OptionalProviders : Cardinality(S) <= MaxUnreliable}

(***************************************************************************)
(* ScanService.uploadAndScan                                               *)
(***************************************************************************)
AllowedExt_any(ext) == TRUE

\* ext !== ".apk" && ext !== ".ipa", on the lower-cased extension
AllowedExt(ext) == toLowerCase(ext) = ".apk" \/ toLowerCase(ext) = ".ipa"

\* scan_id is generated by the table default: the next unused id
FreeIds == {id \in ScanIds : ~Exists(id)}
NewId == CHOOSE id \in FreeIds : \A j \in FreeIds : id <= j

FileUrl(user, id, file) == [bucket |-> "app-uploads", user |-> user,
                            uuid |-> id, name |-> file]

Descriptor(id, user, url) == [scanId |-> id, userId |-> user, filePath |-> url]

PendingRow_processing(user, url) ==
  [user_id |-> Some(user), file_url |-> Some(url), scan_status |-> "processing",
   report_data |-> Null, tf_score |-> Null, pdf_report_url |-> Null]

\* .insert({ user_id, file_name, file_url, scan_status: "pending" })
PendingRow(user, url) ==
  [user_id |-> Some(user), file_url |-> Some(url), scan_status |-> "pending",
   report_data |-> Null, tf_score |-> Null, pdf_report_url |-> Null]

uploadAndScan(file, userId, storeOk, insertOk, queueOk) ==
  IF ~AllowedExt(file.ext)
    THEN /\ apiResult' = [op |-> "uploadAndScan", scanId |-> 0,
                          result |-> "BadRequest"]
         /\ UNCHANGED <<scans, queue, uploads, reports, temp, worker, retry, unreliable,
                      pollVars, scoreVars, clientVars>>
    ELSE
      /\ FreeIds # {}
      /\ LET id == NewId
             url == FileUrl(userId, id, file)
         IN IF ~storeOk
              THEN /\ apiResult' = [op |-> "uploadAndScan", scanId |-> 0,
                                    result |-> "InternalServerError"]
                   /\ UNCHANGED <<scans, queue, uploads>>
              ELSE
                /\ uploads' = uploads \cup {url}
                /\ IF ~insertOk
                     THEN /\ apiResult' = [op |-> "uploadAndScan", scanId |-> 0,
                                           result |-> "InternalServerError"]
                          /\ UNCHANGED <<scans, queue>>
                     ELSE
                       /\ scans' = [scans EXCEPT ![id] = PendingRow(userId, url)]
                       /\ IF ~queueOk
                            THEN /\ apiResult' = [op |-> "uploadAndScan",
                                                  scanId |-> 0,
                                                  result |-> "InternalServerError"]
                                 /\ UNCHANGED queue
                            ELSE /\ Len(queue) < MaxQueue
                                 /\ queue' = Append(queue,
                                                    Descriptor(id, userId, url))
                                 /\ apiResult' = [op |-> "uploadAndScan",
                                                  scanId |-> id, result |-> "ok"]
      /\ UNCHANGED <<reports, temp, worker, retry, unreliable, pollVars, scoreVars, clientVars>>

(***************************************************************************)
(* ScanService.getScanStatus                                               *)
(***************************************************************************)
FindOwned_anyUser(id, user) ==
  IF Exists(id) THEN Some(scans[id]) ELSE Null

\* .eq("scan_id", scanId).eq("user_id", userId).single()
FindOwned(id, user) ==
  IF Exists(id) /\ scans[id].user_id = Some(user) THEN Some(scans[id]) ELSE Null

getScanStatus(id, userId) ==
  /\ apiResult' =
       IF FindOwned(id, userId) = Null
         THEN [op |-> "getScanStatus", scanId |-> id, result |-> "NotFound"]
         ELSE [op |-> "getScanStatus", scanId |-> id,
               result |-> scans[id].scan_status]
  /\ UNCHANGED <<scans, queue, uploads, reports, temp, worker, retry, unreliable,
                      pollVars, scoreVars, clientVars>>

(***************************************************************************)
(* ScanService.retryScan: one step per await                               *)
(***************************************************************************)
RetryAllowed_pending(scan) == scan.scan_status \in {"failed", "pending"}

\* the status check of retryScan
RetryAllowed(scan) == scan.scan_status = "failed"

\* the call up to its first write: fetch the row, check owner and status
RetryCall(r, id, userId) ==
  /\ retry[r].pc = "idle"
  /\ LET found == FindOwned(id, userId)
     IN IF found = Null
          THEN /\ apiResult' = [op |-> "retryScan", scanId |-> id,
                                result |-> "NotFound"]
               /\ UNCHANGED retry
          ELSE IF ~RetryAllowed(Val(found))
            THEN /\ apiResult' = [op |-> "retryScan", scanId |-> id,
                                  result |-> "BadRequest"]
                 /\ UNCHANGED retry
            ELSE /\ retry' = [retry EXCEPT ![r] =
                                [pc |-> "enqueue", scanId |-> id,
                                 userId |-> userId, scan |-> Val(found)]]
                 /\ apiResult' = NoResult
  /\ UNCHANGED <<scans, queue, uploads, reports, temp, worker, unreliable, pollVars, scoreVars, clientVars>>

RetryJob_caller(r) ==
  Descriptor(retry[r].scanId, "u2", Val(retry[r].scan.file_url))

\* { scanId: scan.scan_id, userId: scan.user_id, filePath: scan.file_url }
RetryJob(r) ==
  Descriptor(retry[r].scanId, Val(retry[r].scan.user_id),
             Val(retry[r].scan.file_url))

RetryEnqueue(r, queueOk) ==
  /\ retry[r].pc = "enqueue"
  /\ IF queueOk
       THEN /\ Len(queue) < MaxQueue
            /\ queue' = Append(queue, RetryJob(r))
            /\ retry' = [retry EXCEPT ![r].pc = "update"]
            /\ apiResult' = NoResult
       ELSE \* scanQueue.add rejects: the exception leaves retryScan
            /\ apiResult' = [op |-> "retryScan", scanId |-> retry[r].scanId,
                             result |-> "InternalServerError"]
            /\ retry' = [retry EXCEPT ![r] = IdleRetry]
            /\ UNCHANGED queue
  /\ UNCHANGED <<scans, uploads, reports, temp, worker, unreliable, pollVars, scoreVars, clientVars>>

RetryStatus_queued == "queued"

\* the status retryScan writes once the descriptor is enqueued
RetryStatus == "retrying"

RetryUpdate(r, updateOk) ==
  /\ retry[r].pc = "update"
  /\ IF updateOk
       THEN /\ scans' = [scans EXCEPT ![retry[r].scanId].scan_status = RetryStatus]
            /\ apiResult' = [op |-> "retryScan", scanId |-> retry[r].scanId,
                             result |-> "ok"]
       ELSE /\ apiResult' = [op |-> "retryScan", scanId |-> retry[r].scanId,
                             result |-> "InternalServerError"]
            /\ UNCHANGED scans
  /\ retry' = [retry EXCEPT ![r] = IdleRetry]
  /\ UNCHANGED <<queue, uploads, reports, temp, worker, unreliable, pollVars, scoreVars, clientVars>>

(***************************************************************************)
(* ScanProcessor.processScan: one step per awaited call                    *)
(***************************************************************************)
Job(k) == Val(worker[k].job)

\* what an awaited provider run hands back: a value, or an exception
Returned(v) == [threw |-> FALSE, value |-> Some(v)]
Threw == [threw |-> TRUE, value |-> Null]

\* runMobSFScan returns the report or throws "MobSF scan failed: ..."
MobsfRuns == {Returned(p) : p \in MobsfPayloads} \cup {Threw}
\* runVirusTotalScan returns results, the size skip, or its failure object
VtRuns == IF "virustotal" \in unreliable
            THEN {Returned(VtOk), Returned(VtSkipped), Returned(VtFailed)}
            ELSE {Returned(VtOk)}
\* runMetaDefenderScan and runHybridAnalysisScan return results or rethrow
MdRuns == IF "metadefender" \in unreliable THEN {Returned(MdOk), Threw}
                                            ELSE {Returned(MdOk)}
HaRuns == IF "hybridAnalysis" \in unreliable THEN {Returned(HaOk), Threw}
                                              ELSE {Returned(HaOk)}

\* try { r = await run(); } catch (e) { r = { error: e.message }; }
OptionalResult(run, caught) == IF run.threw THEN caught ELSE Val(run.value)
OptionalNext_rethrow(run, next) == IF run.threw THEN "catch" ELSE next

\* the catch swallows the exception: processing continues with the next step
OptionalNext(run, next) == next

\* Bull hands the oldest waiting descriptor to a free worker slot
Start(k) ==
  /\ worker[k].pc = "idle"
  /\ queue # << >>
  /\ worker' = [worker EXCEPT ![k] = [IdleWorker EXCEPT !.pc = "download",
                                                        !.job = Some(Head(queue))]]
  /\ queue' = Tail(queue)
  /\ temp' = temp \cup {Head(queue).scanId}
  /\ apiResult' = NoResult
  /\ UNCHANGED <<scans, uploads, reports, retry, unreliable, pollVars, scoreVars, clientVars>>

Throw(k, step) ==
  worker' = [worker EXCEPT ![k].pc = "catch", ![k].cause = step]

Download(k, ok) ==
  /\ worker[k].pc = "download"
  /\ IF ok /\ Job(k).filePath \in uploads
       THEN worker' = [worker EXCEPT ![k].pc = "mobsf"]
       ELSE Throw(k, "download")
  /\ apiResult' = NoResult
  /\ UNCHANGED <<scans, queue, uploads, reports, temp, retry, unreliable, pollVars, scoreVars, clientVars>>

AfterMobSF_md == "md"

\* the statement after the awaited runMobSFScan: the VirusTotal try block
AfterMobSF == "vt"

MandatoryNext_contained(run) == AfterMobSF

\* const mobsfResult = await this.runMobSFScan(...) stands in no try block of
\* its own: an exception goes to the catch block of processScan
MandatoryNext(run) == IF run.threw THEN "catch" ELSE AfterMobSF

MobSF(k, run) ==
  /\ worker[k].pc = "mobsf"
  /\ IF MandatoryNext(run) = "catch"
       THEN Throw(k, "mobsf")
       ELSE worker' = [worker EXCEPT ![k].pc = MandatoryNext(run),
                                     ![k].mobsf = run.value]
  /\ apiResult' = NoResult
  /\ UNCHANGED <<scans, queue, uploads, reports, temp, retry, unreliable, pollVars, scoreVars, clientVars>>

VirusTotal(k, run) ==
  /\ worker[k].pc = "vt"
  /\ LET next == OptionalNext(run, "md")
     IN IF next = "catch"
          THEN Throw(k, "vt")
          ELSE worker' = [worker EXCEPT
                 ![k].pc = next,
                 ![k].vt = Some(OptionalResult(run, VtCaught))]
  /\ apiResult' = NoResult
  /\ UNCHANGED <<scans, queue, uploads, reports, temp, retry, unreliable, pollVars, scoreVars, clientVars>>

MetaDefender(k, run) ==
  /\ worker[k].pc = "md"
  /\ LET next == OptionalNext(run, "ha")
     IN IF next = "catch"
          THEN Throw(k, "md")
          ELSE worker' = [worker EXCEPT
                 ![k].pc = next,
                 ![k].md = Some(OptionalResult(run, MdCaught))]
  /\ apiResult' = NoResult
  /\ UNCHANGED <<scans, queue, uploads, reports, temp, retry, unreliable, pollVars, scoreVars, clientVars>>

HybridAnalysis(k, run) ==
  /\ worker[k].pc = "ha"
  /\ LET next == OptionalNext(run, "render")
     IN IF next = "catch"
          THEN Throw(k, "ha")
          ELSE worker' = [worker EXCEPT
                 ![k].pc = next,
                 ![k].ha = Some(OptionalResult(run, HaCaught))]
  /\ apiResult' = NoResult
  /\ UNCHANGED <<scans, queue, uploads, reports, temp, retry, unreliable, pollVars, scoreVars, clientVars>>

combinedResults(k) ==
  [mobsf |-> worker[k].mobsf, virustotal |-> worker[k].vt,
   metadefender |-> worker[k].md, hybridAnalysis |-> worker[k].ha]

\* calculateTFScore, then await generatePDFReport
AfterRender_update == "update"

\* the statements after generatePDFReport: pdfPath and the storage upload
AfterRender == "upload"

Render(k, ok) ==
  /\ worker[k].pc = "render"
  /\ IF ok
       THEN worker' = [worker EXCEPT
              ![k].pc = AfterRender,
              ![k].tfScore = Some(calculateTFScore(combinedResults(k)))]
       ELSE Throw(k, "render")
  /\ apiResult' = NoResult
  /\ UNCHANGED <<scans, queue, uploads, reports, temp, retry, unreliable, pollVars, scoreVars, clientVars>>

PdfPath(job) == [bucket |-> "app-pdf-reports", user |-> job.userId,
                 scan |-> job.scanId, name |-> job.filePath.name]

\* storage.from("app-pdf-reports").upload(pdfPath, pdfBuffer) is called
\* without the upsert option: the store answers with an error when an object
\* already exists at pdfPath
Stored_upsert(k, ok) == ok

Stored(k, ok) == ok /\ PdfPath(Job(k)) \notin reports

UploadReport(k, ok) ==
  /\ worker[k].pc = "upload"
  /\ IF Stored(k, ok)
       THEN /\ reports' = reports \cup {PdfPath(Job(k))}
            /\ worker' = [worker EXCEPT ![k].pc = "update",
                                        ![k].pdfPath = Some(PdfPath(Job(k)))]
       ELSE /\ Throw(k, "upload")
            /\ UNCHANGED reports
  /\ apiResult' = NoResult
  /\ UNCHANGED <<scans, queue, uploads, temp, retry, unreliable, pollVars, scoreVars, clientVars>>

\* .update(fields).eq("scan_id", id): only the named columns change
UpdateRow(row, fields) ==
  [c \in DOMAIN row |-> IF c \in DOMAIN fields THEN fields[c] ELSE row[c]]

CompletedUpdate_fullScore(k) ==
  [scan_status |-> "completed", tf_score |-> Some(100),
   pdf_report_url |-> worker[k].pdfPath,
   report_data |-> Some(combinedResults(k))]

\* { scan_status: "completed", tf_score, pdf_report_url, report_data }
CompletedUpdate(k) ==
  [scan_status |-> "completed", tf_score |-> worker[k].tfScore,
   pdf_report_url |-> worker[k].pdfPath,
   report_data |-> Some(combinedResults(k))]

FailedUpdate_score == [scan_status |-> "failed", tf_score |-> Some(0)]

FailedUpdate == [scan_status |-> "failed"]

UpdateRecord(k, ok) ==
  /\ worker[k].pc = "update"
  /\ IF ok
       THEN /\ scans' = [scans EXCEPT ![Job(k).scanId] =
                           UpdateRow(@, CompletedUpdate(k))]
            /\ worker' = [worker EXCEPT ![k].pc = "cleanup",
                                        ![k].persisted = TRUE]
       ELSE /\ Throw(k, "update")
            /\ UNCHANGED scans
  /\ apiResult' = NoResult
  /\ UNCHANGED <<queue, uploads, reports, temp, retry, unreliable, pollVars, scoreVars, clientVars>>

\* fsPromises.rm(tempDir) inside the try, then processScan resolves
Cleanup(k, ok) ==
  /\ worker[k].pc = "cleanup"
  /\ IF ok
       THEN /\ temp' = temp \ {Job(k).scanId}
            /\ worker' = [worker EXCEPT ![k] = IdleWorker]
       ELSE /\ Throw(k, "cleanup")
            /\ UNCHANGED temp
  /\ apiResult' = NoResult
  /\ UNCHANGED <<scans, queue, uploads, reports, retry, unreliable, pollVars, scoreVars, clientVars>>

\* catch (error): write scan_status failed, rethrow; the answer of the
\* update is not looked at, so a write the store refuses goes unnoticed
Catch(k, ok) ==
  /\ worker[k].pc = "catch"
  /\ scans' = IF ok
                THEN [scans EXCEPT ![Job(k).scanId] = UpdateRow(@, FailedUpdate)]
                ELSE scans
  /\ worker' = [worker EXCEPT ![k] = IdleWorker]
  /\ apiResult' = NoResult
  /\ UNCHANGED <<queue, uploads, reports, temp, retry, unreliable, pollVars, scoreVars, clientVars>>

\* the worker process dies while processScan is running: its locals are gone
\* and nothing is written; the queue either hands the descriptor out again
\* later (requeue) or not
Crash(k, requeue) ==
  /\ worker[k].pc # "idle"
  /\ worker' = [worker EXCEPT ![k] = IdleWorker]
  /\ IF requeue
       THEN /\ Len(queue) < MaxQueue
            /\ queue' = Append(queue, Job(k))
       ELSE UNCHANGED queue
  /\ apiResult' = NoResult
  /\ UNCHANGED <<scans, uploads, reports, temp, retry, unreliable, pollVars, scoreVars, clientVars>>

(***************************************************************************)
(* The pipeline specification                                              *)
(***************************************************************************)
Init == PipeInit /\ PollIdle /\ ScoreIdle /\ ClientIdle

Next ==
  \/ \E f \in FileNames, u \in Uploaders, s, i, q \in BOOLEAN :
       uploadAndScan(f, u, s, i, q)
  \/ \E id \in ScanIds, u \in Users : getScanStatus(id, u)
  \/ \E r \in RetryReqs, id \in ScanIds, u \in Users : RetryCall(r, id, u)
  \/ \E r \in RetryReqs, ok \in BOOLEAN : RetryEnqueue(r, ok)
  \/ \E r \in RetryReqs, ok \in BOOLEAN : RetryUpdate(r, ok)
  \/ \E k \in Workers : Start(k)
  \/ \E k \in Workers, ok \in BOOLEAN : Download(k, ok)
  \/ \E k \in Workers, run \in MobsfRuns : MobSF(k, run)
  \/ \E k \in Workers, run \in VtRuns : VirusTotal(k, run)
  \/ \E k \in Workers, run \in MdRuns : MetaDefender(k, run)
  \/ \E k \in Workers, run \in HaRuns : HybridAnalysis(k, run)
  \/ \E k \in Workers, ok \in BOOLEAN : Render(k, ok)
  \/ \E k \in Workers, ok \in BOOLEAN : UploadReport(k, ok)
  \/ \E k \in Workers, ok \in BOOLEAN : UpdateRecord(k, ok)
  \/ \E k \in Workers, ok \in BOOLEAN : Cleanup(k, ok)
  \/ \E k \in Workers, ok \in BOOLEAN : Catch(k, ok)
  \/ \E k \in Workers, requeue \in BOOLEAN : Crash(k, requeue)

Spec == Init /\ [][Next]_vars

(***************************************************************************)
(* The pipeline while the worker process stays up: every awaited call of   *)
(* processScan is answered, so a run that has started keeps taking steps   *)
(***************************************************************************)
WorkerStep ==
  \/ \E k \in Workers : Start(k)
  \/ \E k \in Workers, ok \in BOOLEAN : Download(k, ok)
  \/ \E k \in Workers, run \in MobsfRuns : MobSF(k, run)
  \/ \E k \in Workers, run \in VtRuns : VirusTotal(k, run)
  \/ \E k \in Workers, run \in MdRuns : MetaDefender(k, run)
  \/ \E k \in Workers, run \in HaRuns : HybridAnalysis(k, run)
  \/ \E k \in Workers, ok \in BOOLEAN : Render(k, ok)
  \/ \E k \in Workers, ok \in BOOLEAN : UploadReport(k, ok)
  \/ \E k \in Workers, ok \in BOOLEAN : UpdateRecord(k, ok)
  \/ \E k \in Workers, ok \in BOOLEAN : Cleanup(k, ok)
  \/ \E k \in Workers, ok \in BOOLEAN : Catch(k, ok)

NextLive ==
  \/ \E f \in FileNames, u \in Uploaders, s, i, q \in BOOLEAN :
       uploadAndScan(f, u, s, i, q)
  \/ \E id \in ScanIds, u \in Users : getScanStatus(id, u)
  \/ \E r \in RetryReqs, id \in ScanIds, u \in Users : RetryCall(r, id, u)
  \/ \E r \in RetryReqs, ok \in BOOLEAN : RetryEnqueue(r, ok)
  \/ \E r \in RetryReqs, ok \in BOOLEAN : RetryUpdate(r, ok)
  \/ \E k \in Workers : Start(k)
  \/ \E k \in Workers, ok \in BOOLEAN : Download(k, ok)
  \/ \E k \in Workers, run \in MobsfRuns : MobSF(k, run)
  \/ \E k \in Workers, run \in VtRuns : VirusTotal(k, run)
  \/ \E k \in Workers, run \in MdRuns : MetaDefender(k, run)
  \/ \E k \in Workers, run \in HaRuns : HybridAnalysis(k, run)
  \/ \E k \in Workers, ok \in BOOLEAN : Render(k, ok)
  \/ \E k \in Workers, ok \in BOOLEAN : UploadReport(k, ok)
  \/ \E k \in Workers, ok \in BOOLEAN : UpdateRecord(k, ok)
  \/ \E k \in Workers, ok \in BOOLEAN : Cleanup(k, ok)
  \/ \E k \in Workers, ok \in BOOLEAN : Catch(k, ok)

SpecLive == Init /\ [][NextLive]_vars /\ WF_vars(WorkerStep)

(***************************************************************************)
(* The poll loops: pollMobSFScanLogs, pollVirusTotalResults,               *)
(* pollMetaDefenderResults, pollHybridAnalysisResults                      *)
(***************************************************************************)
Loops == {"mobsf", "virustotal", "metadefender", "hybridAnalysis"}

maxAttemptsMobSF == 60
maxAttemptsVirusTotal == 30
maxAttemptsMetaDefender == 30
maxAttemptsHybridAnalysis == 30

maxAttempts(l) ==
  CASE l = "mobsf" -> maxAttemptsMobSF
    [] l = "virustotal" -> maxAttemptsVirusTotal
    [] l = "metadefender" -> maxAttemptsMetaDefender
    [] l = "hybridAnalysis" -> maxAttemptsHybridAnalysis

\* What one poll request can be answered with.  kind "error" is a request
\* that throws (network error, 404, a body without the expected fields).
\* MobSF: the last entry of data.logs, as its timestamp and what its text
\* contains ("done": a completion phrase, "failed": 'scan failed' or 'error',
\* "both": a completion phrase and 'error', "progress": neither).
Timestamps == {"t1", "t2", "undefined"}
NoTs == ""
Resp(kind, ts) == [kind |-> kind, ts |-> ts]

MobsfResponses ==
  {Resp("error", NoTs), Resp("empty", NoTs)} \cup
  {Resp(text, ts) : text \in {"progress", "done", "failed", "both"},
                    ts \in Timestamps}
\* VirusTotal: data.attributes.status
VtResponses == {Resp(k, NoTs) : k \in {"error", "completed", "queued",
                                       "in-progress", "failed", "other"}}
\* MetaDefender: scan_results.progress_percentage = 100, or less
MdResponses == {Resp(k, NoTs) : k \in {"error", "100", "below100"}}
\* Hybrid Analysis: state; on SUCCESS the summary request succeeds or throws
HaResponses == {Resp(k, NoTs) : k \in {"error", "404", "SUCCESS",
                                       "SUCCESS-summary-error", "IN_PROGRESS",
                                       "ERROR", "other"}}

Responses(l) ==
  CASE l = "mobsf" -> MobsfResponses
    [] l = "virustotal" -> VtResponses
    [] l = "metadefender" -> MdResponses
    [] l = "hybridAnalysis" -> HaResponses

\* what the provider said, in the words of the poll contract
RespClass(l, r) ==
  CASE r.kind \in {"error", "404", "SUCCESS-summary-error"} -> "error"
    [] r.kind \in {"done", "completed", "100", "SUCCESS"} -> "done"
    [] r.kind \in {"failed", "ERROR"} -> "failure"
    [] r.kind = "both" -> "both"
    [] r.kind \in {"empty", "progress", "queued", "in-progress", "below100",
                   "IN_PROGRESS"} -> "pending"
    [] OTHER -> "other"

TryMobSF_failFirst(r, lastTs) ==
  CASE r.kind = "error" -> "throw"
    [] r.kind = "empty" -> "wait"
    [] r.ts = lastTs -> "wait"
    [] r.kind \in {"failed", "both"} -> "throw"
    [] r.kind = "done" -> "return"
    [] OTHER -> "wait"

\* The body of the try block for one response: "return" the payload, "throw"
\* (an exception raised inside the try), "wait" (sleep pollInterval, next
\* iteration) or "next" (next iteration without a sleep).
TryMobSF(r, lastTs) ==
  CASE r.kind = "error" -> "throw"
    [] r.kind = "empty" -> "wait"
    [] r.ts = lastTs -> "wait"
    [] r.kind \in {"done", "both"} -> "return"
    [] r.kind = "failed" -> "throw"
    [] OTHER -> "wait"

\* lastLogTimestamp after the response
NextLogTimestamp(r, lastTs) ==
  IF r.kind \in {"error", "empty"} THEN lastTs ELSE r.ts

TryVirusTotal(r) ==
  CASE r.kind = "error" -> "throw"
    [] r.kind = "completed" -> "return"
    [] r.kind \in {"queued", "in-progress"} -> "wait"
    [] r.kind = "failed" -> "throw"
    [] OTHER -> "next"

TryMetaDefender(r) ==
  CASE r.kind = "error" -> "throw"
    [] r.kind = "100" -> "return"
    [] OTHER -> "wait"

TryHybridAnalysis(r) ==
  CASE r.kind \in {"error", "404", "SUCCESS-summary-error"} -> "throw"
    [] r.kind = "SUCCESS" -> "return"
    [] r.kind = "IN_PROGRESS" -> "wait"
    [] r.kind = "ERROR" -> "throw"
    [] OTHER -> "next"

Try(l, r, lastTs) ==
  CASE l = "mobsf" -> TryMobSF(r, lastTs)
    [] l = "virustotal" -> TryVirusTotal(r)
    [] l = "metadefender" -> TryMetaDefender(r)
    [] l = "hybridAnalysis" -> TryHybridAnalysis(r)

OnCatch_abort(a, max) == "timeout"

\* the catch block of every loop: rethrow as a timeout on the last attempt,
\* otherwise log, sleep pollInterval and go round again
OnCatch(a, max) == IF a >= max THEN "timeout" ELSE "wait"

LoopGuard_offByOne(a, max) == a <= max

\* while (attempts < maxAttempts)
LoopGuard(a, max) == a < max

PollInit ==
  /\ loop \in Loops
  /\ attempts = 0
  /\ lastLogTimestamp = ""
  /\ outcome = "running"
  /\ polls = 0
  /\ waits = 0
  /\ lastResp = ""
  /\ prefixPending = TRUE
  /\ sawError = FALSE

\* one iteration of the while loop: attempts++, the request, the branches
Poll(r) ==
  /\ outcome = "running"
  /\ LoopGuard(attempts, maxAttempts(loop))
  /\ LET a == attempts + 1
         t == Try(loop, r, lastLogTimestamp)
         act == IF t = "throw" THEN OnCatch(a, maxAttempts(loop)) ELSE t
     IN /\ attempts' = a
        /\ polls' = polls + 1
        /\ lastLogTimestamp' =
             IF loop = "mobsf" THEN NextLogTimestamp(r, lastLogTimestamp)
                               ELSE lastLogTimestamp
        /\ outcome' = CASE act = "return" -> "returned"
                        [] act = "timeout" -> "timeout"
                        [] OTHER -> "running"
        /\ waits' = IF act = "wait" THEN waits + 1 ELSE waits
        /\ lastResp' = RespClass(loop, r)
        /\ prefixPending' = (prefixPending /\ lastResp \in {"", "pending"})
        /\ sawError' = (sawError \/ RespClass(loop, r) = "error")
  /\ UNCHANGED <<loop, pipeVars, scoreVars, clientVars>>

\* the loop ends without a return: throw "... timed out after N attempts"
Exhausted ==
  /\ outcome = "running"
  /\ ~LoopGuard(attempts, maxAttempts(loop))
  /\ outcome' = "timeout"
  /\ UNCHANGED <<loop, attempts, lastLogTimestamp, polls, waits, lastResp,
                 prefixPending, sawError, pipeVars, scoreVars, clientVars>>

PollMobSF == loop = "mobsf" /\ \E r \in MobsfResponses : Poll(r)
PollVirusTotal == loop = "virustotal" /\ \E r \in VtResponses : Poll(r)
PollMetaDefender == loop = "metadefender" /\ \E r \in MdResponses : Poll(r)
PollHybridAnalysis == loop = "hybridAnalysis" /\ \E r \in HaResponses : Poll(r)

InitPoll == PipeInit /\ PollInit /\ ScoreIdle /\ ClientIdle
NextPoll ==
  \/ PollMobSF
  \/ PollVirusTotal
  \/ PollMetaDefender
  \/ PollHybridAnalysis
  \/ Exhausted
SpecPoll == InitPoll /\ [][NextPoll]_vars

(***************************************************************************)
(* Scoring: calculateTFScore and generateRecommendations applied to        *)
(* bundles drawn from bounded sets, then to bundles with one count raised. *)
(***************************************************************************)
Counts == 0..MaxFindings
Providers == {"mobsf"} \cup OptionalProviders
Verdicts == {"malicious", "suspicious", "clean"}

\* a MobSF report without an appsec section
MobsfNoAppsec == [appsec |-> FALSE, high |-> 0, medium |-> 0, low |-> 0]
\* scan_results without scan_details
MdNoDetails == [error |-> FALSE, scan_details |-> FALSE, threats |-> 0]

MobsfInputs ==
  {Null, Some(MobsfNoAppsec)} \cup
  {Some([appsec |-> TRUE, high |-> h, medium |-> m, low |-> l]) :
     h \in Counts, m \in Counts, l \in Counts}
VtInputs ==
  {Null, Some(VtSkipped), Some(VtFailed), Some(VtCaught)} \cup
  {Some([VtOk EXCEPT !.malicious = n]) : n \in Counts}
MdInputs ==
  {Null, Some(MdCaught), Some(MdNoDetails)} \cup
  {Some([MdOk EXCEPT !.threats = n]) : n \in Counts}
HaInputs ==
  {Null, Some(HaCaught)} \cup
  {Some([error |-> FALSE, verdict |-> v, threats |-> n]) :
     v \in Verdicts, n \in Counts}

Bundles == [mobsf : MobsfInputs, virustotal : VtInputs,
            metadefender : MdInputs, hybridAnalysis : HaInputs]

\* the list or map a count is the length of, per provider
CountFields ==
  [mobsf |-> {"high", "medium", "low"}, virustotal |-> {"malicious"},
   metadefender |-> {"threats"}, hybridAnalysis |-> {"threats"}]

\* the provider's entry holds such a list or map
HasCounts(b, p) ==
  CASE p = "mobsf" -> HasAppsec(b.mobsf)
    [] p = "virustotal" -> Scored(b.virustotal) /\ ~Val(b.virustotal).skipped
    [] p = "metadefender" ->
         Scored(b.metadefender) /\ Val(b.metadefender).scan_details
    [] p = "hybridAnalysis" -> Scored(b.hybridAnalysis)

\* one more entry in the list or map
Raise(b, p, f) == [b EXCEPT ![p] = Some([Val(@) EXCEPT ![f] = @ + 1])]

\* the scoring variables are idle in the pipeline; here the pipeline is idle
PipeIdle == PipeInit /\ unreliable = {}

InitScore ==
  /\ PipeIdle
  /\ PollIdle
  /\ ClientIdle
  /\ results \in Bundles
  /\ score = Null
  /\ recommendations = Null

\* calculateTFScore(results) and generateRecommendations(results)
ScoreBundle ==
  /\ score = Null
  /\ score' = Some(calculateTFScore(results))
  /\ recommendations' = Some(generateRecommendations(results))
  /\ UNCHANGED <<results, pipeVars, pollVars, clientVars>>

\* the same bundle with one more finding in one list, scored again
ScoreRaised(p, f) ==
  /\ score # Null
  /\ HasCounts(results, p)
  /\ Val(results[p])[f] < MaxFindings
  /\ results' = Raise(results, p, f)
  /\ score' = Some(calculateTFScore(results'))
  /\ recommendations' = Some(generateRecommendations(results'))
  /\ UNCHANGED <<pipeVars, pollVars, clientVars>>

NextScore ==
  \/ ScoreBundle
  \/ \E p \in Providers : \E f \in CountFields[p] : ScoreRaised(p, f)

SpecScore == InitScore /\ [][NextScore]_vars

(***************************************************************************)
(* One provider client call: runVirusTotalScan, runMetaDefenderScan or     *)
(* runHybridAnalysisScan on one file, and the assignment processScan makes *)
(* from it                                                                 *)
(***************************************************************************)
\* fileTypeFromBuffer(...)?.mime: the APK type, application/octet-stream,
\* another recognised type, or undefined when none is recognised
Mimes == {"apk", "octet-stream", "zip", "undefined"}

\* what the provider answers: the submission (accepted, refused with 413,
\* another error), the poll loop (a payload, a completed analysis without
\* the field that is returned, a time-out), the hash lookup of the fallback
VtCalls == [client : {"virustotal"}, oversize : BOOLEAN, mime : {"apk"},
            submit : {"ok", "413", "error"},
            poll : {"results", "undefined", "timeout"},
            lookup : {"found", "undefined", "error"}]
MdCalls == [client : {"metadefender"}, oversize : {FALSE}, mime : Mimes,
            submit : {"ok", "error"}, poll : {"results", "timeout"},
            lookup : {""}]
HaCalls == [client : {"hybridAnalysis"}, oversize : {FALSE}, mime : Mimes,
            submit : {"ok", "error"}, poll : {"results", "timeout"},
            lookup : {""}]
Calls == VtCalls \cup MdCalls \cup HaCalls

\* return response.data.data.attributes.results, where the field is absent
ReturnedUndefined == [threw |-> FALSE, value |-> Null]

Ran(o, reqs) == [outcome |-> o, requests |-> reqs]

\* fileSizeInMB > 650: return { skipped: true, reason }
\* catch: on 413 try the hash lookup, else return { error, skipped, reason }
runVirusTotalScan(c) ==
  IF c.oversize
    THEN Ran(Returned(VtSkipped), {})
    ELSE CASE c.submit = "ok" ->
                (CASE c.poll = "results" ->
                        Ran(Returned(VtOk), {"upload_url", "upload", "poll"})
                   [] c.poll = "undefined" ->
                        Ran(ReturnedUndefined, {"upload_url", "upload", "poll"})
                   [] c.poll = "timeout" ->
                        Ran(Returned(VtFailed), {"upload_url", "upload", "poll"}))
           [] c.submit = "413" ->
                (CASE c.lookup = "found" ->
                        Ran(Returned(VtOk), {"upload_url", "upload", "lookup"})
                   [] c.lookup = "undefined" ->
                        Ran(ReturnedUndefined, {"upload_url", "upload", "lookup"})
                   [] c.lookup = "error" ->
                        Ran(Returned(VtFailed), {"upload_url", "upload", "lookup"}))
           [] c.submit = "error" ->
                Ran(Returned(VtFailed), {"upload_url"})

MetaDefenderTypes == {"apk", "octet-stream"}
HybridAnalysisTypes == {"apk"}

\* !fileType || !allowed.includes(fileType.mime): throw "Invalid file type"
\* catch: log and rethrow
runMetaDefenderScan(c) ==
  IF c.mime \notin MetaDefenderTypes
    THEN Ran(Threw, {})
    ELSE IF c.submit # "ok"
           THEN Ran(Threw, {"upload"})
           ELSE IF c.poll = "results"
                  THEN Ran(Returned(MdOk), {"upload", "poll"})
                  ELSE Ran(Threw, {"upload", "poll"})

runHybridAnalysisScan(c) ==
  IF c.mime \notin HybridAnalysisTypes
    THEN Ran(Threw, {})
    ELSE IF c.submit # "ok"
           THEN Ran(Threw, {"upload"})
           ELSE IF c.poll = "results"
                  THEN Ran(Returned(HaOk), {"upload", "poll"})
                  ELSE Ran(Threw, {"upload", "poll"})

Caught(client) ==
  CASE client = "virustotal" -> VtCaught
    [] client = "metadefender" -> MdCaught
    [] client = "hybridAnalysis" -> HaCaught

RunVirusTotalScan ==
  /\ call.client = "virustotal" /\ ran = Null
  /\ ran' = Some(runVirusTotalScan(call))
  /\ UNCHANGED <<call, slot, pipeVars, pollVars, scoreVars>>

RunMetaDefenderScan ==
  /\ call.client = "metadefender" /\ ran = Null
  /\ ran' = Some(runMetaDefenderScan(call))
  /\ UNCHANGED <<call, slot, pipeVars, pollVars, scoreVars>>

RunHybridAnalysisScan ==
  /\ call.client = "hybridAnalysis" /\ ran = Null
  /\ ran' = Some(runHybridAnalysisScan(call))
  /\ UNCHANGED <<call, slot, pipeVars, pollVars, scoreVars>>

\* try { xResult = await run(); } catch (e) { xResult = { error: e.message }; }
\* and then combinedResults = { ..., x: xResult, ... }
Assign ==
  /\ ran # Null /\ ~slot.assigned
  /\ slot' = [assigned |-> TRUE,
              value |-> IF Val(ran).outcome.threw
                          THEN Some(Caught(call.client))
                          ELSE Val(ran).outcome.value]
  /\ UNCHANGED <<call, ran, pipeVars, pollVars, scoreVars>>

InitClient ==
  /\ PipeIdle
  /\ PollIdle
  /\ ScoreIdle
  /\ call \in Calls
  /\ ran = Null
  /\ slot = Unassigned

NextClient ==
  \/ RunVirusTotalScan
  \/ RunMetaDefenderScan
  \/ RunHybridAnalysisScan
  \/ Assign

SpecClient == InitClient /\ [][NextClient]_vars

(***************************************************************************)
(* Job pipeline properties                                                 *)
(***************************************************************************)
Owned(id, u) == FindOwned(id, u) # Null

\* C1: retryScan on a job the caller owns is accepted only when the stored
\* status is failed; with any other status the call answers BadRequest,
\* enqueues nothing and leaves the table (and the call slot) as they were.
C1_RetryOnlyFromFailed ==
  [][\A r \in RetryReqs, id \in ScanIds, u \in Users :
       (RetryCall(r, id, u) /\ Owned(id, u)) =>
         IF scans[id].scan_status = "failed"
           THEN retry'[r].pc = "enqueue" /\ apiResult' = NoResult
           ELSE /\ apiResult' = [op |-> "retryScan", scanId |-> id,
                                 result |-> "BadRequest"]
                /\ UNCHANGED <<scans, queue, retry>>]_vars

C1_Witness ==
  /\ apiResult.op = "retryScan"
  /\ apiResult.result = "BadRequest"
  /\ scans[apiResult.scanId].scan_status = "completed"
  /\ queue = << >>

\* C2: the catch block of processScan, when the worker lives through it,
\* changes nothing but scan_status of the job's row, which becomes failed,
\* and then the run ends (the error is rethrown).  When the step that threw is the download, runMobSFScan, the
\* rendering, the report upload or the completed write, the run has persisted
\* no bundle, score or report reference.
ClaimedThrowSteps == {"download", "mobsf", "render", "upload", "update"}

C3_OptionalContained ==
  \A k \in Workers :
    LET w == worker[k] IN
    /\ w.pc = "catch" => w.cause \notin {"vt", "md", "ha"}
    /\ w.pc \in {"md", "ha", "render", "upload", "update", "cleanup"} => w.vt # Null
    /\ w.pc \in {"ha", "render", "upload", "update", "cleanup"} => w.md # Null
    /\ w.pc \in {"render", "upload", "update", "cleanup"} => w.ha # Null
    /\ w.pc = "cleanup" =>
         /\ scans[Job(k).scanId].report_data = Some(combinedResults(k))
         /\ scans[Job(k).scanId].scan_status \in {"completed", RetryStatus}

C3_Witness ==
  \E k \in Workers :
    /\ worker[k].pc = "cleanup"
    /\ Val(worker[k].md).error
    /\ ~Val(worker[k].vt).error /\ ~Val(worker[k].ha).error
    /\ scans[Job(k).scanId].scan_status = "completed"
    /\ Val(Val(scans[Job(k).scanId].report_data).metadefender).error

\* C4 (as claimed): a status only moves forward along pending -> processing
\* -> completed | failed, or from failed back to processing on a retry; a
\* completed status never changes.  The status the code stores on a retry,
\* "retrying", is read as the claim's processing, and a worker pickup that is
\* not persisted is allowed to be skipped.
StatusMoveAllowed(from, to) ==
  \/ from = to
  \/ from = "" /\ to = "pending"
  \/ from = "pending" /\ to \in {"processing", "retrying", "completed", "failed"}
  \/ from \in {"processing", "retrying"} /\ to \in {"completed", "failed"}
  \/ from = "failed" /\ to \in {"processing", "retrying", "completed", "failed"}

C4_StatusMonotonic ==
  [][\A id \in ScanIds :
       StatusMoveAllowed(scans[id].scan_status, scans'[id].scan_status)]_vars

\* C5 (as claimed): a row has status completed only if report_data, tf_score
\* and pdf_report_url are all set, and a row with any other status carries
\* none of them.
C5_BundleOnlyWithCompleted ==
  \A id \in ScanIds :
    Exists(id) =>
      IF scans[id].scan_status = "completed"
        THEN /\ scans[id].report_data # Null
             /\ scans[id].tf_score # Null
             /\ scans[id].pdf_report_url # Null
        ELSE /\ scans[id].report_data = Null
             /\ scans[id].tf_score = Null
             /\ scans[id].pdf_report_url = Null

\* C6 (as claimed): every stored status, and every status getScanStatus
\* returns, is one of pending, processing, completed, failed.
ClaimedStatuses == {"pending", "processing", "completed", "failed"}

StoredStatuses == {"pending", "retrying", "completed", "failed"}

OutcomeTags(p, o) ==
  (IF o.error THEN {"Failed"} ELSE {}) \cup
  (IF p = "virustotal" /\ o.skipped THEN {"Skipped"} ELSE {}) \cup
  (IF ~o.error /\ ~(p = "virustotal" /\ o.skipped) THEN {"Success"} ELSE {})

C11_FailedProviderTaggedFailed ==
  \A id \in ScanIds :
    scans[id].report_data # Null =>
      \A p \in OptionalProviders :
        LET tags == OutcomeTags(p, Val(Val(scans[id].report_data)[p]))
        IN /\ Cardinality(tags) = 1
           /\ p \notin unreliable => tags = {"Success"}

\* C16 (as claimed): the optional providers fan out and fan in: once any of
\* them has settled or is awaited, all of them have been dispatched, and the
\* bundle is assembled only after all have settled.  A provider counts as
\* dispatched from the moment processScan is at its call.
Settled(w) ==
  {p \in OptionalProviders :
     CASE p = "virustotal" -> w.vt # Null
       [] p = "metadefender" -> w.md # Null
       [] p = "hybridAnalysis" -> w.ha # Null}

Dispatched(w) ==
  Settled(w) \cup (CASE w.pc = "vt" -> {"virustotal"}
                     [] w.pc = "md" -> {"metadefender"}
                     [] w.pc = "ha" -> {"hybridAnalysis"}
                     [] OTHER -> {})

Assembling(w) == w.pc \in {"render", "upload", "update", "cleanup"}

Waiting(id) == {i \in 1..Len(queue) : queue[i].scanId = id}
Holding(id) == {k \in Workers : worker[k].job # Null /\ Job(k).scanId = id}

C17_OneDescriptorPerJob ==
  \A id \in ScanIds : Cardinality(Waiting(id)) + Cardinality(Holding(id)) <= 1

\* C18 (as claimed): when processScan ends for a job, by returning after the
\* cleanup or by rethrowing from its catch block, temp/<scanId> is gone.
C18_TempReclaimed ==
  [][\A k \in Workers :
       \A ok \in BOOLEAN :
         (Catch(k, ok) \/ (Cleanup(k, ok) /\ worker'[k].pc = "idle"))
         => Job(k).scanId \notin temp']_vars

\* C19 (as claimed): when the worker dies before its completed write, the
\* job's record is not completed and a retryScan by the owner would be
\* accepted (the record passes retryScan's status check).
C19_CrashLeavesRetryable ==
  [][\A k \in Workers, requeue \in BOOLEAN :
       (Crash(k, requeue) /\ ~worker[k].persisted) =>
         /\ scans'[Job(k).scanId].scan_status # "completed"
         /\ RetryAllowed(scans'[Job(k).scanId])]_vars

\* C20: uploadAndScan with a file whose lower-cased extension is neither .apk
\* nor .ipa answers BadRequest and stores nothing: no object, no record, no
\* descriptor.
DisallowedNames ==
  {f \in FileNames : toLowerCase(f.ext) \notin {".apk", ".ipa"}}

C20_BadExtensionRejected ==
  [][apiResult'.op = "uploadAndScan" =>
       \A f \in DisallowedNames, u \in Uploaders, s, i, q \in BOOLEAN :
         uploadAndScan(f, u, s, i, q) =>
           /\ apiResult' = [op |-> "uploadAndScan", scanId |-> 0,
                            result |-> "BadRequest"]
           /\ UNCHANGED <<scans, queue, uploads>>]_vars

C20_Witness ==
  /\ apiResult = [op |-> "uploadAndScan", scanId |-> 0, result |-> "BadRequest"]
  /\ uploads = {}
  /\ queue = << >>
  /\ \A id \in ScanIds : ~Exists(id)

(***************************************************************************)
(* Poll loop properties (SpecPoll)                                         *)
(***************************************************************************)
\* C7 (as claimed): a failure signal answered to any poll makes the loop
\* raise at once: after such a response the loop is no longer running.
C7_FailureRaisesImmediately ==
  lastResp = "failure" => outcome # "running"

\* C8 (as claimed): when every response before the latest was "pending" and
\* the latest is "done", the loop has returned the payload at that poll.
C8_DoneAfterPendingReturns ==
  (polls >= 1 /\ prefixPending /\ lastResp = "done") =>
     (outcome = "returned" /\ polls <= maxAttempts(loop))

\* C9: when every poll so far was answered "pending" the loop has not
\* returned, and once it has ended it has thrown the timeout after exactly
\* maxAttempts polls; no loop ever issues more than maxAttempts polls.
AllPending == prefixPending /\ lastResp \in {"", "pending"}

C9_AllPendingTimesOut ==
  loop \in Loops =>
    /\ polls <= maxAttempts(loop)
    /\ AllPending => outcome # "returned"
    /\ (AllPending /\ outcome # "running") =>
         (outcome = "timeout" /\ polls = maxAttempts(loop))

C9_Witness ==
  /\ loop = "mobsf"
  /\ AllPending
  /\ outcome = "timeout"
  /\ polls = maxAttemptsMobSF

\* C10: a transient error on an attempt before the last leaves the loop
\* running (it polls again), and whatever the mix of responses the number of
\* poll requests stays within maxAttempts.
C10_TransientErrorRetried ==
  loop \in Loops =>
    /\ polls <= maxAttempts(loop)
    /\ polls = attempts
    /\ (lastResp = "error" /\ attempts < maxAttempts(loop)) =>
         outcome = "running"

C10_Witness ==
  /\ loop = "hybridAnalysis"
  /\ sawError
  /\ lastResp = "done"
  /\ outcome = "returned"
  /\ polls = maxAttemptsHybridAnalysis

(***************************************************************************)
(* Scoring properties (SpecScore)                                          *)
(***************************************************************************)
\* C12: every score is an integer from 0 to 100, and scoring a bundle again
\* after one of its finding counts was raised by one (everything else kept)
\* never gives a higher score.
C12_ScoreBoundedMonotone ==
  /\ [](score # Null => Val(score) \in 0..100)
  /\ [][(score # Null /\ results' # results) =>
          Val(score') <= Val(score)]_vars

C12_Witness ==
  /\ score = Some(0)
  /\ HasAppsec(results.mobsf)
  /\ Val(results.mobsf).high = MaxFindings
  /\ Scored(results.hybridAnalysis)
  /\ Val(results.hybridAnalysis).threats = MaxFindings

\* C13: the score equals 100 - 10*high - 5*medium - 2*low - 5*malicious AV
\* engines - 5*reputation detections - verdict penalty (20 malicious, 10
\* suspicious) - 3*sandbox threats, clamped to 0..100, where a provider
\* without findings to count contributes nothing; the end-to-end bundle
\* (2 high, 1 medium, 1 malicious engine, clean verdict, no reputation
\* result) scores 70.
CountOf(b, p, f) == IF HasCounts(b, p) THEN Val(b[p])[f] ELSE 0

VerdictPenalty(b) ==
  IF ~HasCounts(b, "hybridAnalysis") THEN 0
  ELSE IF Val(b.hybridAnalysis).verdict = "malicious" THEN 20
  ELSE IF Val(b.hybridAnalysis).verdict = "suspicious" THEN 10
  ELSE 0

ReferenceScore(b) ==
  LET raw == 100 - 10 * CountOf(b, "mobsf", "high")
                 - 5 * CountOf(b, "mobsf", "medium")
                 - 2 * CountOf(b, "mobsf", "low")
                 - 5 * CountOf(b, "virustotal", "malicious")
                 - 5 * CountOf(b, "metadefender", "threats")
                 - VerdictPenalty(b)
                 - 3 * CountOf(b, "hybridAnalysis", "threats")
  IN IF raw < 0 THEN 0 ELSE IF raw > 100 THEN 100 ELSE raw

EndToEndBundle(md) ==
  [mobsf |-> Some([appsec |-> TRUE, high |-> 2, medium |-> 1, low |-> 0]),
   virustotal |-> Some([VtOk EXCEPT !.malicious = 1]),
   metadefender |-> md,
   hybridAnalysis |-> Some([error |-> FALSE, verdict |-> "clean",
                            threats |-> 0])]

C13_ScoreEqualsReference ==
  score # Null =>
    /\ Val(score) = ReferenceScore(results)
    /\ results \in {EndToEndBundle(Null), EndToEndBundle(Some(MdCaught))} =>
         Val(score) = 70

C13_Witness ==
  /\ results = EndToEndBundle(Null)
  /\ score = Some(70)

\* C14: a provider whose outcome is failed (error marker) or skipped (skip
\* marker, or no entry) costs nothing and recommends nothing: the score equals
\* the score of the same bundle with that provider succeeding without
\* findings, no recommendation of that provider is listed, and a bundle whose
\* providers are all skipped scores 100 with an empty list.
FailedOrSkipped(b, p) ==
  \/ b[p] = Null
  \/ p \in OptionalProviders /\ Val(b[p]).error
  \/ p = "virustotal" /\ Val(b[p]).skipped

CleanSuccess ==
  [mobsf |-> [appsec |-> TRUE, high |-> 0, medium |-> 0, low |-> 0],
   virustotal |-> [VtOk EXCEPT !.malicious = 0],
   metadefender |-> [MdOk EXCEPT !.threats = 0],
   hybridAnalysis |-> [error |-> FALSE, verdict |-> "clean", threats |-> 0]]

RecsOf ==
  [mobsf |-> {RecHigh, RecMedium, RecLow}, virustotal |-> {RecVirusTotal},
   metadefender |-> {RecMetaDefender}, hybridAnalysis |-> {RecHybridAnalysis}]

Listed(recs) == {recs[i] : i \in 1..Len(recs)}

AllSkipped(b) ==
  /\ b.mobsf = Null /\ b.metadefender = Null /\ b.hybridAnalysis = Null
  /\ b.virustotal \in {Null, Some(VtSkipped)}

C14_FailedOrSkippedCostsNothing ==
  score # Null =>
    /\ \A p \in Providers :
         FailedOrSkipped(results, p) =>
           /\ Val(score) =
                calculateTFScore([results EXCEPT ![p] = Some(CleanSuccess[p])])
           /\ Listed(Val(recommendations)) \cap RecsOf[p] = {}
    /\ AllSkipped(results) =>
         (Val(score) = 100 /\ Val(recommendations) = << >>)

C14_Witness ==
  /\ score = Some(100)
  /\ recommendations = Some(<< >>)
  /\ results.virustotal = Some(VtSkipped)
  /\ AllSkipped(results)

\* C15 (as claimed): the recommendation list holds, in the order static high,
\* medium, low, AV, reputation, sandbox, exactly the recommendations of the
\* categories that take a nonzero deduction from the score.
Deducts(b) ==
  [high |-> CountOf(b, "mobsf", "high") > 0,
   medium |-> CountOf(b, "mobsf", "medium") > 0,
   low |-> CountOf(b, "mobsf", "low") > 0,
   av |-> CountOf(b, "virustotal", "malicious") > 0,
   reputation |-> CountOf(b, "metadefender", "threats") > 0,
   sandbox |-> VerdictPenalty(b) > 0
                 \/ CountOf(b, "hybridAnalysis", "threats") > 0]

ClaimedRecommendations(b) ==
  (IF Deducts(b).high THEN <<RecHigh>> ELSE << >>)
  \o (IF Deducts(b).medium THEN <<RecMedium>> ELSE << >>)
  \o (IF Deducts(b).low THEN <<RecLow>> ELSE << >>)
  \o (IF Deducts(b).av THEN <<RecVirusTotal>> ELSE << >>)
  \o (IF Deducts(b).reputation THEN <<RecMetaDefender>> ELSE << >>)
  \o (IF Deducts(b).sandbox THEN <<RecHybridAnalysis>> ELSE << >>)

C15_RecommendationPerAdverseCategory ==
  recommendations # Null =>
    Val(recommendations) = ClaimedRecommendations(results)

\* C21: a successful uploadAndScan stores the file, creates exactly one row
\* with status pending and no result columns, and appends exactly one
\* descriptor with that row's id, owner and stored file reference; the id it
\* returns is the row's.  The three effects come in that order: a call that
\* enqueued has created the row, a call that created the row has stored the
\* file.  No descriptor in the queue ever names a row that does not exist.
C21_UploadStoresInsertsEnqueues ==
  /\ [](\A i \in 1..Len(queue) : Exists(queue[i].scanId))
  /\ [][apiResult'.op = "uploadAndScan" =>
          /\ queue' # queue => scans' # scans
          /\ scans' # scans =>
               \E id \in ScanIds :
                 /\ ~Exists(id)
                 /\ scans' = [scans EXCEPT ![id] = scans'[id]]
                 /\ scans'[id].scan_status = "pending"
                 /\ Val(scans'[id].file_url) \in uploads'
          /\ apiResult'.result = "ok" =>
               LET id == apiResult'.scanId IN
                 /\ ~Exists(id)
                 /\ scans' = [scans EXCEPT ![id] = scans'[id]]
                 /\ scans'[id].scan_status = "pending"
                 /\ scans'[id].report_data = Null
                 /\ scans'[id].tf_score = Null
                 /\ scans'[id].pdf_report_url = Null
                 /\ Val(scans'[id].file_url) \in uploads'
                 /\ queue' = Append(queue,
                      [scanId |-> id, userId |-> Val(scans'[id].user_id),
                       filePath |-> Val(scans'[id].file_url)])]_vars

C21_Witness ==
  /\ apiResult.op = "uploadAndScan" /\ apiResult.result = "ok"
  /\ scans[apiResult.scanId].scan_status = "pending"
  /\ \E i \in 1..Len(queue) : queue[i].scanId = apiResult.scanId

\* C22 (as claimed): an uploadAndScan that ends in InternalServerError has
\* created no row unless the file was stored, and every row it did create
\* either has a descriptor in the queue or is in a status retryScan accepts.
C22_FailedUploadLeavesRetryPath ==
  [][(apiResult'.op = "uploadAndScan"
      /\ apiResult'.result = "InternalServerError") =>
        /\ uploads' = uploads => (scans' = scans /\ queue' = queue)
        /\ \A id \in ScanIds :
             (~Exists(id) /\ scans'[id].user_id # Null) =>
               \/ \E i \in 1..Len(queue') : queue'[i].scanId = id
               \/ RetryAllowed(scans'[id])]_vars

\* C23: once a row holds a bundle, no step changes its report_data, tf_score
\* or pdf_report_url.
C23_BundleImmutable ==
  [][\A id \in ScanIds :
       scans[id].report_data # Null =>
         /\ scans'[id].report_data = scans[id].report_data
         /\ scans'[id].tf_score = scans[id].tf_score
         /\ scans'[id].pdf_report_url = scans[id].pdf_report_url]_vars

\* a later run of the same job has gone through the providers again and has
\* ended in the catch block while the row already holds a bundle
C23_Witness ==
  \E k \in Workers :
    /\ worker[k].pc = "catch"
    /\ worker[k].cause = "upload"
    /\ scans[Job(k).scanId].report_data # Null
    /\ scans[Job(k).scanId].scan_status = "completed"

\* C24 (as claimed): a run of processScan whose report upload reaches a
\* healthy store goes on to the completed write, whether or not an earlier
\* delivery of the same descriptor has already stored the report.
C24_RedeliveryCanComplete ==
  [][\A k \in Workers :
       UploadReport(k, TRUE) => worker'[k].pc = "update"]_vars

\* C29: a retryScan that enqueues appends exactly one descriptor, made of the
\* id, owner and file reference of the stored row, and its status write adds
\* none.
C29_RetryDescriptorFromRow ==
  [][\A r \in RetryReqs :
       /\ (retry[r].pc = "enqueue" /\ retry'[r].pc = "update") =>
            /\ queue' = Append(queue,
                 [scanId |-> retry[r].scanId,
                  userId |-> Val(scans[retry[r].scanId].user_id),
                  filePath |-> Val(scans[retry[r].scanId].file_url)])
       /\ (retry[r].pc = "update" /\ retry'[r].pc = "idle") =>
            queue' = queue]_vars

C29_Witness ==
  \E r \in RetryReqs :
    /\ retry[r].pc = "update"
    /\ \E i \in 1..Len(queue) :
         queue[i] = Descriptor(retry[r].scanId,
                               Val(scans[retry[r].scanId].user_id),
                               Val(scans[retry[r].scanId].file_url))

\* C30 (as claimed): when processScan returns to the queue, by resolving
\* after the cleanup or by rethrowing from its catch block, the row of its
\* job shows a terminal status.
C30_TerminalPersistedBeforeReturn ==
  [][\A k \in Workers : \A ok \in BOOLEAN :
       (Catch(k, ok) \/ (Cleanup(k, ok) /\ worker'[k].pc = "idle")) =>
         scans'[Job(k).scanId].scan_status \in {"completed", "failed"}]_vars

\* C25 (as claimed): whatever the provider answered, the value processScan
\* places in the provider's entry of the bundle is defined, so the stored
\* bundle has an outcome under each provider's key.
C25_EveryProviderHasOutcome ==
  slot.assigned => slot.value # Null

\* C26 (as claimed): a client whose precondition on the file is violated
\* (VirusTotal's size ceiling, the file types MetaDefender and Hybrid
\* Analysis accept) submits nothing and the provider's entry of the bundle is
\* a Skipped outcome, not a failure.
PreconditionViolated(c) ==
  \/ c.client = "virustotal" /\ c.oversize
  \/ c.client = "metadefender" /\ c.mime \notin MetaDefenderTypes
  \/ c.client = "hybridAnalysis" /\ c.mime \notin HybridAnalysisTypes

C27_OneWaitPerPoll ==
  outcome = "running" => waits = polls

\* C28: a MobSF log line that carries both a completion phrase and "error"
\* ends the loop with the payload; it can only be looked at in a response
\* that passed the format check, and a response that fails the format check
\* never ends the loop as done.
C28_CompletionWinsOnValidPayload ==
  [][\A r \in MobsfResponses :
       (loop = "mobsf" /\ Poll(r)) =>
         /\ (r.kind = "both" /\ r.ts # lastLogTimestamp) => outcome' = "returned"
         /\ r.kind = "error" => outcome' # "returned"]_vars

C28_Witness ==
  loop = "mobsf" /\ lastResp = "both" /\ outcome = "returned"

\* C31: processScan goes past runMobSFScan only with its result: while an
\* optional provider is awaited or the bundle is assembled the MobSF result
\* is there, a score exists only once MobSF has succeeded and all three
\* optional providers have settled, and a run that runMobSFScan sent to the
\* catch block has invoked no optional provider, computed no score and
\* stored no report.
C31_MandatoryGatesScoring ==
  \A k \in Workers :
    LET w == worker[k] IN
    /\ w.pc \in {"vt", "md", "ha", "render", "upload", "update", "cleanup"} =>
         w.mobsf # Null
    /\ w.tfScore # Null =>
         (w.mobsf # Null /\ Settled(w) = OptionalProviders)
    /\ (w.pc = "catch" /\ w.cause = "mobsf") =>
         /\ w.mobsf = Null
         /\ Settled(w) = {}
         /\ w.tfScore = Null
         /\ w.pdfPath = Null
         /\ ~w.persisted

C31_Witness ==
  \E k \in Workers :
    /\ worker[k].pc = "catch" /\ worker[k].cause = "mobsf"
    /\ PdfPath(Job(k)) \notin reports

\* C32: in every row with status completed, tf_score is calculateTFScore of
\* the bundle stored in report_data of the same row.
C32_ScoreDerivedFromBundle ==
  \A id \in ScanIds :
    scans[id].scan_status = "completed" =>
      /\ scans[id].report_data # Null
      /\ scans[id].tf_score = Some(calculateTFScore(Val(scans[id].report_data)))

C32_Witness ==
  \E id \in ScanIds :
    /\ scans[id].scan_status = "completed"
    /\ scans[id].tf_score # Null
    /\ Val(scans[id].tf_score) < 100
    /\ Val(scans[id].tf_score) = calculateTFScore(Val(scans[id].report_data))

\* C36: getScanStatus and retryScan called with a job id the caller does not
\* own answer NotFound, as they do for an id without a row, whatever the
\* row holds; such a retryScan goes no further: no descriptor is enqueued
\* and no row changes.
C36_OnlyOwnerActs ==
  [][\A id \in ScanIds : \A u \in Users :
       (~Exists(id) \/ scans[id].user_id # Some(u)) =>
         /\ getScanStatus(id, u) =>
              /\ apiResult'.result = "NotFound"
              /\ UNCHANGED <<scans, queue, retry>>
         /\ \A r \in RetryReqs :
              RetryCall(r, id, u) =>
                /\ apiResult'.result = "NotFound"
                /\ UNCHANGED <<scans, queue, retry>>]_vars

\* another user's call on an existing job has been answered
C36_Witness ==
  /\ apiResult.op \in {"getScanStatus", "retryScan"}
  /\ apiResult.result = "NotFound"
  /\ Exists(apiResult.scanId)

InFlight(id) ==
  \E k \in Workers : worker[k].pc # "idle" /\ Job(k).scanId = id

C33_DequeuedJobEndsTerminal ==
  \A id \in ScanIds :
    InFlight(id) ~> (scans[id].scan_status \in {"completed", "failed"})

\* C34 (as claimed): whichever way the enqueue and the status update of an
\* accepted retryScan interleave with the worker, once no descriptor of the
\* job is queued or in flight the stored status is completed or failed: in
\* particular the status update of the retry, when it comes after the
\* worker has finished the re-enqueued descriptor, leaves a terminal status.
Quiescent(id) ==
  /\ ~InFlight(id)
  /\ \A i \in 1..Len(queue) : queue[i].scanId # id

C34_RetryEndsTerminal ==
  [][\A r \in RetryReqs :
       (retry[r].pc = "update" /\ RetryUpdate(r, TRUE)
        /\ Quiescent(retry[r].scanId)) =>
         scans'[retry[r].scanId].scan_status \in {"completed", "failed"}]_vars

\* C35 (as claimed): a retryScan that answers NotFound or BadRequest has
\* changed neither the queue nor a row, and a retryScan that answers
\* InternalServerError has not enqueued its descriptor.
C35_RetryErrorEnqueuesNothing ==
  [][/\ (apiResult'.op = "retryScan"
         /\ apiResult'.result \in {"NotFound", "BadRequest"}) =>
           UNCHANGED <<scans, queue>>
     /\ \A r \in RetryReqs :
          (retry[r].pc # "idle" /\ retry'[r].pc = "idle"
           /\ apiResult'.op = "retryScan"
           /\ apiResult'.result = "InternalServerError") =>
            retry[r].pc # "update"]_vars

\* C38 (as claimed): a MobSF poll whose latest log entry carries a
\* completion phrase ends the loop with the payload, whatever timestamp the
\* entry has and whatever was answered before.
C38_CompletionAlwaysReported ==
  [][\A r \in MobsfResponses :
       (loop = "mobsf" /\ r.kind \in {"done", "both"} /\ Poll(r)) =>
         outcome' = "returned"]_vars

====
